---- MODULE Spec2Model ----
(***************************************************************************)
(* Model of twitchAPI/twitch.py: the Twitch client's two credentials, the  *)
(* header builder, the app token exchange and the endpoint methods.        *)
(* Python's None is modelled by NoneVal for tokens and by the empty        *)
(* sequence <<>> for optional arguments (Some(v) is <<v>>).                *)
(***************************************************************************)
EXTENDS Integers, Sequences, FiniteSets, TLC

\* ---------------------------------------------------------------- bounds
MaxScopeLen == 2
\* authenticate calls the writer thread makes in the interleaved specification
MaxCalls == 2

\* ------------------------------------------------------------- constants
\* Python's None, as the value of an unset token
NoneVal == "None"

AuthType == {"NONE", "APP", "USER", "EITHER"}

AuthScope == {"ANALYTICS_READ_EXTENSION", "ANALYTICS_READ_GAMES", "BITS_READ",
              "CLIPS_EDIT", "MODERATION_READ"}

\* the scopes the authenticate calls and the direct header builds draw from
ScopeInputs == {"ANALYTICS_READ_EXTENSION", "BITS_READ"}

SeqsUpTo(S, n) == UNION {[1..k -> S] : k \in 0..n}

\* required_scope arguments: any list, order and repetitions included
ScopeLists == SeqsUpTo(ScopeInputs, MaxScopeLen)

\* scope arguments of the authenticate calls: lists without repetitions (only
\* membership in a credential's scope list is ever read)
GrantLists == {s \in ScopeLists : \A i, j \in 1..Len(s) : i # j => s[i] # s[j]}

\* opaque token strings
Tokens == {"token-1", "token-2"}

VARIABLES
    app_id,              \* self.app_id
    app_auth_token,      \* self.__app_auth_token
    app_auth_scope,      \* self.__app_auth_scope
    has_app_auth,        \* self.__has_app_auth
    user_auth_token,     \* self.__user_auth_token
    user_auth_scope,     \* self.__user_auth_scope
    has_user_auth,       \* self.__has_user_auth
    last,                \* the last public call: its arguments and its outcome
    wpc, wcall,          \* writer thread: position in authenticate_app / set_user_authentication
    rpc, rcall,          \* reader thread: position in __generate_header
    installed            \* history: the (kind, token, scope) credentials the calls stored

creds == <<app_id, app_auth_token, app_auth_scope, has_app_auth,
           user_auth_token, user_auth_scope, has_user_auth>>
threads == <<wpc, wcall, rpc, rcall, installed>>
vars == <<creds, last, threads>>

\* ------------------------------------------------------- python helpers
Contains(list, x) == \E i \in 1..Len(list) : list[i] = x

\* f'Bearer {token}'
Bearer(token) == <<"Bearer", token>>

NoHeader == [k \in {} |-> NoneVal]
NoMsg == <<>>

\* cred names the credential whose token the Authorization header was built from
Raise(exc, msg) == [err |-> exc, msg |-> msg, header |-> NoHeader, cred |-> "none"]
Return(header, cred) == [err |-> "none", msg |-> NoMsg, header |-> header, cred |-> cred]

\* a slip in the loop: it keeps going and reports the last unsatisfied scope
RECURSIVE FirstMissing_Last(_, _, _)
FirstMissing_Last(required_scope, granted, i) ==
    IF i > Len(required_scope) THEN "none"
    ELSE LET rest == FirstMissing_Last(required_scope, granted, i + 1) IN
         IF rest # "none" THEN rest
         ELSE IF ~Contains(granted, required_scope[i]) THEN required_scope[i]
         ELSE "none"

\* for s in required_scope: if s not in granted: raise ... (the first such s)
RECURSIVE FirstMissing(_, _, _)
FirstMissing(required_scope, granted, i) ==
    IF i > Len(required_scope) THEN "none"
    ELSE IF ~Contains(granted, required_scope[i]) THEN required_scope[i]
    ELSE FirstMissing(required_scope, granted, i + 1)

\* a slip in line 48: the condition reads __has_app_auth, so the app token wins
GenerateHeader_PreferApp(auth_type, required_scope) ==
    LET header == [k \in {"Client-ID"} |-> app_id]
        WithAuth(tok) == [k \in {"Client-ID", "Authorization"} |->
                             IF k = "Client-ID" THEN app_id ELSE Bearer(tok)]
    IN  IF auth_type = "APP" THEN
            IF ~has_app_auth THEN
                Raise("UnauthorizedException", <<"Require app authentication!">>)
            ELSE IF FirstMissing(required_scope, app_auth_scope, 1) # "none" THEN
                Raise("MissingScopeException",
                      <<"Require app auth scope", FirstMissing(required_scope, app_auth_scope, 1)>>)
            ELSE Return(WithAuth(app_auth_token), "app")
        ELSE IF auth_type = "USER" THEN
            IF ~has_user_auth THEN
                Raise("UnauthorizedException", <<"require user authentication!">>)
            ELSE IF FirstMissing(required_scope, user_auth_scope, 1) # "none" THEN
                Raise("MissingScopeException",
                      <<"Require user auth scope", FirstMissing(required_scope, user_auth_scope, 1)>>)
            ELSE Return(WithAuth(user_auth_token), "user")
        ELSE IF has_user_auth \/ has_app_auth THEN
            Return(WithAuth(IF has_app_auth THEN app_auth_token ELSE user_auth_token),
                   IF has_app_auth THEN "app" ELSE "user")
        ELSE Return(header, "none")

\* ------------------------------------------------- Twitch.__generate_header
GenerateHeader(auth_type, required_scope) ==
    LET header == [k \in {"Client-ID"} |-> app_id]
        WithAuth(tok) == [k \in {"Client-ID", "Authorization"} |->
                             IF k = "Client-ID" THEN app_id ELSE Bearer(tok)]
    IN  IF auth_type = "APP" THEN
            IF ~has_app_auth THEN
                Raise("UnauthorizedException", <<"Require app authentication!">>)
            ELSE IF FirstMissing(required_scope, app_auth_scope, 1) # "none" THEN
                Raise("MissingScopeException",
                      <<"Require app auth scope", FirstMissing(required_scope, app_auth_scope, 1)>>)
            ELSE Return(WithAuth(app_auth_token), "app")
        ELSE IF auth_type = "USER" THEN
            IF ~has_user_auth THEN
                Raise("UnauthorizedException", <<"require user authentication!">>)
            ELSE IF FirstMissing(required_scope, user_auth_scope, 1) # "none" THEN
                Raise("MissingScopeException",
                      <<"Require user auth scope", FirstMissing(required_scope, user_auth_scope, 1)>>)
            ELSE Return(WithAuth(user_auth_token), "user")
        ELSE IF has_user_auth \/ has_app_auth THEN
            Return(WithAuth(IF has_user_auth THEN user_auth_token ELSE app_auth_token),
                   IF has_user_auth THEN "user" ELSE "app")
        ELSE Return(header, "none")

\* ------------------------------------------------------------ the record
NoArgs == [none |-> TRUE]

Outcome(op, args, auth_type, required_scope, err, msg, header, requests) ==
    [op |-> op, args |-> args, auth_type |-> auth_type,
     required_scope |-> required_scope, err |-> err, msg |-> msg,
     header |-> header, cred |-> "none", requests |-> requests]

\* the writer thread's current call, and the reader thread's header build
NoCall == [op |-> "none", scope |-> <<>>, token |-> NoneVal, n |-> 0]
NoBuild == [auth_type |-> "NONE", required_scope |-> <<>>, i |-> 1, kind |-> "none",
            seen |-> {}, token |-> NoneVal, present |-> FALSE, err |-> "none",
            authorization |-> FALSE]

Init ==
    /\ app_id = "client-id"
    /\ app_auth_token = NoneVal
    /\ app_auth_scope = <<>>
    /\ has_app_auth = FALSE
    /\ user_auth_token = NoneVal
    /\ user_auth_scope = <<>>
    /\ has_user_auth = FALSE
    /\ last = Outcome("init", NoArgs, "NONE", <<>>, "none", NoMsg, NoHeader, <<>>)
    /\ wpc = "idle" /\ wcall = NoCall
    /\ rpc = "idle" /\ rcall = NoBuild
    /\ installed = {}

\* ------------------------------------------- Twitch.__generate_app_token
\* The token endpoint's answer: a status code and a body, which is invalid
\* JSON, JSON without access_token, or JSON carrying a token.
Responses ==
    [status_code : {200, 403}, body : {"invalid_json", "no_access_token"}] \cup
    [status_code : {200, 403}, body : {"json"}, access_token : Tokens]

\* the exception __generate_app_token raises on this answer, "none" if it stores the token
GenerateAppTokenErr(result) ==
    IF result.status_code # 200 THEN "Authentication failed with code"
    ELSE IF result.body = "invalid_json" THEN "Authentication response did not have a valid json body"
    ELSE IF result.body = "no_access_token" THEN "Authentication response did not contain access_token"
    ELSE "none"

\* a slip in authenticate_app: the flag is set before the token exchange
authenticate_app_FlagFirst(scope, result) ==
    LET e == GenerateAppTokenErr(result) IN
    /\ app_auth_scope' = scope
    /\ has_app_auth' = TRUE
    /\ IF e = "none"
       THEN app_auth_token' = result.access_token
       ELSE UNCHANGED app_auth_token
    /\ last' = Outcome("authenticate_app", [status_code |-> result.status_code], "NONE", <<>>,
                       IF e = "none" THEN "none" ELSE "Exception",
                       IF e = "none" THEN NoMsg ELSE <<e>>, NoHeader, <<"POST oauth2/token">>)
    /\ UNCHANGED <<app_id, user_auth_token, user_auth_scope, has_user_auth, threads>>

\* --------------------------------------------------- Twitch.authenticate_app
authenticate_app(scope, result) ==
    LET e == GenerateAppTokenErr(result) IN
    /\ app_auth_scope' = scope
    /\ IF e = "none"
       THEN /\ app_auth_token' = result.access_token
            /\ has_app_auth' = TRUE
       ELSE UNCHANGED <<app_auth_token, has_app_auth>>
    /\ last' = Outcome("authenticate_app", [status_code |-> result.status_code], "NONE", <<>>,
                       IF e = "none" THEN "none" ELSE "Exception",
                       IF e = "none" THEN NoMsg ELSE <<e>>, NoHeader, <<"POST oauth2/token">>)
    /\ UNCHANGED <<app_id, user_auth_token, user_auth_scope, has_user_auth, threads>>

\* ------------------------------------------- Twitch.set_user_authentication
set_user_authentication(token, scope) ==
    /\ user_auth_token' = token
    /\ user_auth_scope' = scope
    /\ has_user_auth' = TRUE
    /\ last' = Outcome("set_user_authentication", NoArgs,
                       "NONE", <<>>, "none", NoMsg, NoHeader, <<>>)
    /\ UNCHANGED <<app_id, app_auth_token, app_auth_scope, has_app_auth, threads>>

\* a direct header build: __generate_header(auth_type, required_scope)
generate_header(auth_type, required_scope) ==
    LET r == GenerateHeader(auth_type, required_scope) IN
    /\ last' = [Outcome("generate_header", NoArgs, auth_type, required_scope,
                        r.err, r.msg, r.header, <<>>) EXCEPT !.cred = r.cred]
    /\ UNCHANGED <<creds, threads>>

\* ------------------------------------------------- the request helpers
NoErr == [exc |-> "none", msg |-> NoMsg]
Exc(exc, text) == [exc |-> exc, msg |-> <<text>>]

\* requests.get / requests.post: one HTTP request with these headers
HttpRequest(method, headers) == [method |-> method, headers |-> headers]

\* a slip in __api_get_request: the request goes out before the headers are checked
ApiGetRequest_SendFirst(auth_type, required_scope) ==
    LET headers == GenerateHeader(auth_type, required_scope) IN
    [err |-> headers.err, msg |-> headers.msg,
     requests |-> <<HttpRequest("GET", headers.header)>>]

\* Twitch.__api_get_request: build the headers, then requests.get
ApiGetRequest(auth_type, required_scope) ==
    LET headers == GenerateHeader(auth_type, required_scope) IN
    IF headers.err # "none"
    THEN [err |-> headers.err, msg |-> headers.msg, requests |-> <<>>]
    ELSE [err |-> "none", msg |-> NoMsg, requests |-> <<HttpRequest("GET", headers.header)>>]

\* Twitch.__api_post_request: build the headers, then requests.post
ApiPostRequest(auth_type, required_scope) ==
    LET headers == GenerateHeader(auth_type, required_scope) IN
    IF headers.err # "none"
    THEN [err |-> headers.err, msg |-> headers.msg, requests |-> <<>>]
    ELSE [err |-> "none", msg |-> NoMsg, requests |-> <<HttpRequest("POST", headers.header)>>]

\* list.count(*xs): Python's list.count takes exactly one argument
ListCount(list, xs) ==
    IF Len(xs) # 1 THEN [exc |-> "TypeError", value |-> -1]
    ELSE [exc |-> "none", value |-> Cardinality({i \in 1..Len(list) : list[i] = xs[1]})]

\* An endpoint method: its argument checks (check), then the request (sent),
\* then response.json(), which raises ValueError on a body that is not JSON.
Endpoint(op, args, auth_type, required_scope, check, sent) ==
    /\ \E body_ok \in (IF check.exc = "none" /\ sent.err = "none" THEN BOOLEAN ELSE {TRUE}) :
       last' =
         IF check.exc # "none" THEN
            Outcome(op, args, auth_type, required_scope, check.exc, check.msg, NoHeader, <<>>)
         ELSE IF sent.err # "none" THEN
            Outcome(op, args, auth_type, required_scope, sent.err, sent.msg, NoHeader, sent.requests)
         ELSE IF ~body_ok THEN
            Outcome(op, args, auth_type, required_scope, "ValueError", <<"response.json()">>,
                    NoHeader, sent.requests)
         ELSE Outcome(op, args, auth_type, required_scope, "none", NoMsg, NoHeader, sent.requests)
    /\ UNCHANGED <<creds, threads>>

\* ------------------------------------------------------ argument inputs
IntInputs == {0, 1, 100, 150}
OptDates == {<<>>, <<1>>, <<2>>}
ListOfLen(n) == [i \in 1..n |-> "x"]
CodeLists == {ListOfLen(n) : n \in {0, 1, 20, 21}}
ManifestIds == {ListOfLen(n) : n \in {0, 1, 64, 65}}
OptIdLists == {<<>>} \cup {<<ListOfLen(n)>> : n \in {1, 50, 51}}

\* len(x) if x is not None else 0
LenOrZero(opt) == IF opt # <<>> THEN Len(opt[1]) ELSE 0

\* ------------------------------------------------------ argument checks
\* first / count: "if first > 100 or first < 1"
RangeCheck(name, n) ==
    IF n > 100 \/ n < 1 THEN Exc("Exception", name \o " must be between 1 and 100") ELSE NoErr

\* get_extension_analytics, lines 132-139
ExtensionAnalyticsCheck(first, ended_at, started_at) ==
    IF (ended_at # <<>> \/ started_at # <<>>) /\ (ended_at = <<>> \/ started_at = <<>>)
    THEN Exc("Exception", "you must specify both ended_at and started_at")
    ELSE IF ended_at # <<>> /\ started_at # <<>> /\ started_at[1] > ended_at[1]
    THEN Exc("Exception", "started_at must be before ended_at")
    ELSE RangeCheck("first", first)

\* get_game_analytics, lines 162-168
GameAnalyticsCheck(first, ended_at, started_at) ==
    IF (ended_at # <<>> \/ started_at # <<>>) /\ (ended_at = <<>> \/ started_at = <<>>)
    THEN Exc("Exception", "you must specify both ended_at and started_at")
    ELSE IF ended_at # <<>> /\ started_at # <<>> /\ ended_at[1] < started_at[1]
    THEN Exc("Exception", "ended_at must be after started_at")
    ELSE RangeCheck("first", first)

\* get_code_status / redeem_code: "if code.count() > 20 or code.count() < 1"
CodeCheck(code) ==
    LET c == ListCount(code, <<>>) IN
    IF c.exc # "none" THEN Exc(c.exc, "count() takes exactly one argument (0 given)")
    ELSE IF c.value > 20 \/ c.value < 1
    THEN Exc("Exception", "only between 1 and 20 codes are allowed")
    ELSE NoErr

\* create_entitlement_grants_upload_url, line 255
ManifestCheck(manifest_id) ==
    IF Len(manifest_id) < 1 \/ Len(manifest_id) > 64
    THEN Exc("Exception", "manifest_id must be between 1 and 64 characters long!")
    ELSE NoErr

\* get_users, line 113
UsersCheck(user_ids, logins) ==
    IF user_ids = <<>> /\ logins = <<>>
    THEN Exc("Exception", "please either specify user_ids or logins")
    ELSE NoErr

\* get_games, lines 311-314
GamesCheck(game_ids, names) ==
    IF game_ids = <<>> /\ names = <<>>
    THEN Exc("Exception", "at least one of either game_ids and names has to be set")
    ELSE IF LenOrZero(game_ids) + LenOrZero(names) > 100
    THEN Exc("Exception", "in total, only 100 game_ids and names can be passed")
    ELSE NoErr

\* ------------------------------------------------------------ endpoints
\* line 109 calls __api_get_request without required_scope: a TypeError
get_webhook_subscriptions ==
    Endpoint("get_webhook_subscriptions", NoArgs, "APP", <<>>,
             Exc("TypeError", "missing 1 required positional argument: 'required_scope'"),
             ApiGetRequest("APP", <<>>))

get_users(user_ids, logins) ==
    Endpoint("get_users", [user_ids |-> user_ids, logins |-> logins], "NONE", <<>>,
             UsersCheck(user_ids, logins), ApiGetRequest("NONE", <<>>))

get_extension_analytics(first, ended_at, started_at) ==
    Endpoint("get_extension_analytics",
             [first |-> first, ended_at |-> ended_at, started_at |-> started_at],
             "USER", <<"ANALYTICS_READ_EXTENSION">>,
             ExtensionAnalyticsCheck(first, ended_at, started_at),
             ApiGetRequest("USER", <<"ANALYTICS_READ_EXTENSION">>))

get_game_analytics(first, ended_at, started_at) ==
    Endpoint("get_game_analytics",
             [first |-> first, ended_at |-> ended_at, started_at |-> started_at],
             "USER", <<"ANALYTICS_READ_GAMES">>,
             GameAnalyticsCheck(first, ended_at, started_at),
             ApiGetRequest("USER", <<"ANALYTICS_READ_GAMES">>))

get_bits_leaderboard(count) ==
    Endpoint("get_bits_leaderboard", [count |-> count], "USER", <<"BITS_READ">>,
             RangeCheck("count", count), ApiGetRequest("USER", <<"BITS_READ">>))

get_extension_transactions(first) ==
    Endpoint("get_extension_transactions", [first |-> first], "APP", <<>>,
             RangeCheck("first", first), ApiGetRequest("APP", <<>>))

create_clip ==
    Endpoint("create_clip", NoArgs, "USER", <<"CLIPS_EDIT">>,
             NoErr, ApiPostRequest("USER", <<"CLIPS_EDIT">>))

get_clips ==
    Endpoint("get_clips", NoArgs, "NONE", <<>>, NoErr, ApiGetRequest("NONE", <<>>))

create_entitlement_grants_upload_url(manifest_id) ==
    Endpoint("create_entitlement_grants_upload_url", [manifest_id |-> manifest_id], "APP", <<>>,
             ManifestCheck(manifest_id), ApiPostRequest("APP", <<>>))

get_code_status(code) ==
    Endpoint("get_code_status", [code |-> code], "APP", <<>>,
             CodeCheck(code), ApiGetRequest("APP", <<>>))

redeem_code(code) ==
    Endpoint("redeem_code", [code |-> code], "APP", <<>>,
             CodeCheck(code), ApiPostRequest("APP", <<>>))

get_top_games(first) ==
    Endpoint("get_top_games", [first |-> first], "NONE", <<>>,
             RangeCheck("first", first), ApiGetRequest("NONE", <<>>))

get_games(game_ids, names) ==
    Endpoint("get_games", [game_ids |-> game_ids, names |-> names], "NONE", <<>>,
             GamesCheck(game_ids, names), ApiGetRequest("NONE", <<>>))

check_automod_status ==
    Endpoint("check_automod_status", NoArgs, "USER", <<"MODERATION_READ">>,
             NoErr, ApiPostRequest("USER", <<"MODERATION_READ">>))

get_banned_events(first) ==
    Endpoint("get_banned_events", [first |-> first], "USER", <<"MODERATION_READ">>,
             RangeCheck("first", first), ApiGetRequest("USER", <<"MODERATION_READ">>))

get_banned_users ==
    Endpoint("get_banned_users", NoArgs, "USER", <<"MODERATION_READ">>,
             NoErr, ApiGetRequest("USER", <<"MODERATION_READ">>))

AuthenticateApp == \E scope \in GrantLists, result \in Responses : authenticate_app(scope, result)
SetUserAuthentication == \E token \in Tokens, scope \in GrantLists : set_user_authentication(token, scope)
BuildHeader == \E auth_type \in AuthType, required_scope \in ScopeLists : generate_header(auth_type, required_scope)

GetWebhookSubscriptions == get_webhook_subscriptions
GetUsers == \E user_ids \in OptIdLists, logins \in OptIdLists :
    get_users(user_ids, logins)
GetExtensionAnalytics == \E first \in IntInputs, ended_at \in OptDates, started_at \in OptDates :
    get_extension_analytics(first, ended_at, started_at)
GetGameAnalytics == \E first \in IntInputs, ended_at \in OptDates, started_at \in OptDates :
    get_game_analytics(first, ended_at, started_at)
GetBitsLeaderboard == \E count \in IntInputs : get_bits_leaderboard(count)
GetExtensionTransactions == \E first \in IntInputs : get_extension_transactions(first)
CreateClip == create_clip
GetClips == get_clips
CreateEntitlementGrantsUploadUrl == \E manifest_id \in ManifestIds :
    create_entitlement_grants_upload_url(manifest_id)
GetCodeStatus == \E code \in CodeLists : get_code_status(code)
RedeemCode == \E code \in CodeLists : redeem_code(code)
GetTopGames == \E first \in IntInputs : get_top_games(first)
GetGames == \E game_ids \in OptIdLists, names \in OptIdLists :
    get_games(game_ids, names)
CheckAutomodStatus == check_automod_status
GetBannedEvents == \E first \in IntInputs : get_banned_events(first)
GetBannedUsers == get_banned_users

Next ==
    \/ AuthenticateApp
    \/ SetUserAuthentication
    \/ BuildHeader

Spec == Init /\ [][Next]_vars

NextEndpoints ==
    \/ AuthenticateApp
    \/ SetUserAuthentication
    \/ GetWebhookSubscriptions
    \/ GetUsers
    \/ GetExtensionAnalytics
    \/ GetGameAnalytics
    \/ GetBitsLeaderboard
    \/ GetExtensionTransactions
    \/ CreateClip
    \/ GetClips
    \/ CreateEntitlementGrantsUploadUrl
    \/ GetCodeStatus
    \/ RedeemCode
    \/ GetTopGames
    \/ GetGames
    \/ CheckAutomodStatus
    \/ GetBannedEvents
    \/ GetBannedUsers

SpecEndpoints == Init /\ [][NextEndpoints]_vars

\* ------------------------------------------------------------------------
\* Two threads on one client, statement by statement: a writer in
\* authenticate_app / set_user_authentication and a reader in
\* __generate_header.  The class takes no lock, so the threads interleave
\* between any two statements.
\* ------------------------------------------------------------------------

\* writer: authenticate_app(scope) is called
W_CallAuthenticateApp(scope) ==
    /\ wpc = "idle" /\ wcall.n < MaxCalls
    /\ wcall' = [op |-> "authenticate_app", scope |-> scope, token |-> NoneVal, n |-> wcall.n + 1]
    /\ wpc' = "line90"
    /\ UNCHANGED <<creds, last, rpc, rcall, installed>>

\* line 90: self.__app_auth_scope = scope
W_Line90 ==
    /\ wpc = "line90"
    /\ app_auth_scope' = wcall.scope
    /\ wpc' = "line78"
    /\ UNCHANGED <<app_id, app_auth_token, has_app_auth, user_auth_token, user_auth_scope,
                   has_user_auth, last, wcall, rpc, rcall, installed>>

\* lines 78-87: the POST returns; raise, or self.__app_auth_token = data['access_token']
W_Line78(result) ==
    /\ wpc = "line78"
    /\ IF GenerateAppTokenErr(result) = "none"
       THEN /\ app_auth_token' = result.access_token
            /\ wcall' = [wcall EXCEPT !.token = result.access_token]
            /\ installed' = installed \cup {<<"app", result.access_token, wcall.scope>>}
            /\ wpc' = "line92"
       ELSE /\ wpc' = "idle"
            /\ UNCHANGED <<app_auth_token, wcall, installed>>
    /\ UNCHANGED <<app_id, app_auth_scope, has_app_auth, user_auth_token, user_auth_scope,
                   has_user_auth, last, rpc, rcall>>

\* line 92: self.__has_app_auth = True
W_Line92 ==
    /\ wpc = "line92"
    /\ has_app_auth' = TRUE
    /\ wpc' = "idle"
    /\ UNCHANGED <<app_id, app_auth_token, app_auth_scope, user_auth_token, user_auth_scope,
                   has_user_auth, last, wcall, rpc, rcall, installed>>

\* writer: set_user_authentication(token, scope) is called
W_CallSetUserAuthentication(token, scope) ==
    /\ wpc = "idle" /\ wcall.n < MaxCalls
    /\ wcall' = [op |-> "set_user_authentication", scope |-> scope, token |-> token, n |-> wcall.n + 1]
    /\ installed' = installed \cup {<<"user", token, scope>>}
    /\ wpc' = "line95"
    /\ UNCHANGED <<creds, last, rpc, rcall>>

\* line 95: self.__user_auth_token = token
W_Line95 ==
    /\ wpc = "line95"
    /\ user_auth_token' = wcall.token
    /\ wpc' = "line96"
    /\ UNCHANGED <<app_id, app_auth_token, app_auth_scope, has_app_auth, user_auth_scope,
                   has_user_auth, last, wcall, rpc, rcall, installed>>

\* line 96: self.__user_auth_scope = scope
W_Line96 ==
    /\ wpc = "line96"
    /\ user_auth_scope' = wcall.scope
    /\ wpc' = "line97"
    /\ UNCHANGED <<app_id, app_auth_token, app_auth_scope, has_app_auth, user_auth_token,
                   has_user_auth, last, wcall, rpc, rcall, installed>>

\* line 97: self.__has_user_auth = True
W_Line97 ==
    /\ wpc = "line97"
    /\ has_user_auth' = TRUE
    /\ wpc' = "idle"
    /\ UNCHANGED <<app_id, app_auth_token, app_auth_scope, has_app_auth, user_auth_token,
                   user_auth_scope, last, wcall, rpc, rcall, installed>>

\* reader: __generate_header(auth_type, required_scope) is called (line 30)
R_Call(auth_type, required_scope) ==
    /\ rpc = "idle"
    /\ rcall' = [NoBuild EXCEPT !.auth_type = auth_type, !.required_scope = required_scope]
    /\ rpc' = "flag"
    /\ UNCHANGED <<creds, last, wpc, wcall, installed>>

\* lines 31-33, 38-40, 45: the branch on auth_type and on the presence flags
R_Flag ==
    /\ rpc = "flag"
    /\ IF rcall.auth_type = "APP" THEN
          IF ~has_app_auth
          THEN rpc' = "done" /\ rcall' = [rcall EXCEPT !.err = "UnauthorizedException"]
          ELSE rpc' = "scope" /\ rcall' = [rcall EXCEPT !.kind = "app"]
       ELSE IF rcall.auth_type = "USER" THEN
          IF ~has_user_auth
          THEN rpc' = "done" /\ rcall' = [rcall EXCEPT !.err = "UnauthorizedException"]
          ELSE rpc' = "scope" /\ rcall' = [rcall EXCEPT !.kind = "user"]
       ELSE IF has_user_auth \/ has_app_auth
          THEN rpc' = "pick" /\ UNCHANGED rcall
          ELSE rpc' = "done" /\ UNCHANGED rcall
    /\ UNCHANGED <<creds, last, wpc, wcall, installed>>

\* lines 34-36, 41-43: one iteration of "for s in required_scope", reading the scope list
R_Scope ==
    /\ rpc = "scope"
    /\ LET granted == IF rcall.kind = "app" THEN app_auth_scope ELSE user_auth_scope IN
       IF rcall.i > Len(rcall.required_scope)
       THEN rpc' = "token" /\ UNCHANGED rcall
       ELSE IF ~Contains(granted, rcall.required_scope[rcall.i])
       THEN /\ rpc' = "done"
            /\ rcall' = [rcall EXCEPT !.err = "MissingScopeException", !.seen = @ \cup {granted}]
       ELSE /\ rpc' = "scope"
            /\ rcall' = [rcall EXCEPT !.i = @ + 1, !.seen = @ \cup {granted}]
    /\ UNCHANGED <<creds, last, wpc, wcall, installed>>

\* lines 37, 44: header['Authorization'] = f'Bearer {token}'
R_Token ==
    /\ rpc = "token"
    /\ rcall' = [rcall EXCEPT
                   !.token = IF rcall.kind = "app" THEN app_auth_token ELSE user_auth_token,
                   !.present = IF rcall.kind = "app" THEN has_app_auth ELSE has_user_auth,
                   !.authorization = TRUE]
    /\ rpc' = "done"
    /\ UNCHANGED <<creds, last, wpc, wcall, installed>>

\* lines 47-48: Bearer {user token if has_user_auth else app token}
R_Pick ==
    /\ rpc = "pick"
    /\ rcall' = [rcall EXCEPT
                   !.kind = IF has_user_auth THEN "user" ELSE "app",
                   !.token = IF has_user_auth THEN user_auth_token ELSE app_auth_token,
                   !.present = IF has_user_auth THEN has_user_auth ELSE has_app_auth,
                   !.authorization = TRUE]
    /\ rpc' = "done"
    /\ UNCHANGED <<creds, last, wpc, wcall, installed>>

W_AuthenticateApp == \E scope \in GrantLists : W_CallAuthenticateApp(scope)
W_TokenExchange == \E result \in Responses : W_Line78(result)
W_SetUserAuthentication == \E token \in Tokens, scope \in GrantLists : W_CallSetUserAuthentication(token, scope)
R_GenerateHeader == \E auth_type \in AuthType, required_scope \in ScopeLists : R_Call(auth_type, required_scope)

NextConc ==
    \/ W_AuthenticateApp
    \/ W_Line90
    \/ W_TokenExchange
    \/ W_Line92
    \/ W_SetUserAuthentication
    \/ W_Line95
    \/ W_Line96
    \/ W_Line97
    \/ R_GenerateHeader
    \/ R_Flag
    \/ R_Scope
    \/ R_Token
    \/ R_Pick

SpecConc == Init /\ [][NextConc]_vars

\* ------------------------------------------------------------------------
\* The claims
\* ------------------------------------------------------------------------
HasAuth(cred) == IF cred = "app" THEN has_app_auth ELSE IF cred = "user" THEN has_user_auth ELSE FALSE
TokenOf(cred) == IF cred = "app" THEN app_auth_token ELSE user_auth_token
ScopeOf(cred) == IF cred = "app" THEN app_auth_scope ELSE user_auth_scope
Covers(granted, required_scope) ==
    \A i \in 1..Len(required_scope) : Contains(granted, required_scope[i])
BuiltHeader == last.op = "generate_header"
HasAuthorization == last.err = "none" /\ "Authorization" \in DOMAIN last.header

\* C1: the header builder never returns an Authorization header built from a
\* credential whose stored scope list does not cover the required scopes.
C1_NoUnderScopedAuthorization ==
    (BuiltHeader /\ HasAuthorization) => Covers(ScopeOf(last.cred), last.required_scope)

\* C2: after authenticate_app got a non-200 answer, the app credential is not
\* marked present.
C2_FailedExchangeLeavesAppAbsent ==
    (last.op = "authenticate_app" /\ last.args.status_code # 200) => ~has_app_auth

\* C3: a credential is never partially updated: a successful authenticate
\* call leaves its credential present with a token stored, and a failing
\* authenticate_app leaves the app credential's token, scope list and
\* presence flag exactly as they were before the call.
C3_NoPartialUpdate ==
    [][/\ (last'.op = "authenticate_app" /\ last'.err = "none")
            => (has_app_auth' /\ app_auth_token' \in Tokens)
       /\ (last'.op = "set_user_authentication")
            => (has_user_auth' /\ user_auth_token' \in Tokens)
       /\ (last'.op = "authenticate_app" /\ last'.err # "none")
            => UNCHANGED <<app_auth_token, app_auth_scope, has_app_auth>>]_vars

\* C4: a header build running beside an authenticate call checks scopes only
\* against a scope list some call paired with the token it sends, and only
\* sends the token of a credential marked present.
C4_HeaderSeesWholeCredential ==
    (rpc = "done" /\ rcall.authorization) =>
        /\ rcall.present
        /\ \A s \in rcall.seen : <<rcall.kind, rcall.token, s>> \in installed

\* C5 as stated: in mode NONE the builder succeeds with the Client-ID header
\* and no Authorization header, whatever credentials are present.
C5_NoneModeNeverAuthorizes ==
    (BuiltHeader /\ last.auth_type = "NONE") =>
        /\ last.err = "none"
        /\ "Client-ID" \in DOMAIN last.header
        /\ "Authorization" \notin DOMAIN last.header

\* C5 as amended: in mode NONE the builder succeeds with the Client-ID
\* header; there is no Authorization header exactly when neither credential
\* is present, otherwise it is Bearer of the user token if the user
\* credential is present and of the app token if only the app credential is.
C5_NoneModeHeader ==
    (BuiltHeader /\ last.auth_type = "NONE") =>
        /\ last.err = "none"
        /\ "Client-ID" \in DOMAIN last.header
        /\ last.header["Client-ID"] = app_id
        /\ ("Authorization" \in DOMAIN last.header) <=> (has_user_auth \/ has_app_auth)
        /\ has_user_auth => last.header["Authorization"] = Bearer(user_auth_token)
        /\ (has_app_auth /\ ~has_user_auth) => last.header["Authorization"] = Bearer(app_auth_token)

C5_Witness ==
    /\ BuiltHeader /\ last.auth_type = "NONE" /\ last.required_scope = <<>>
    /\ has_app_auth /\ has_user_auth /\ app_auth_token # user_auth_token
    /\ last.header["Authorization"] = Bearer(user_auth_token)

\* C6: in mode EITHER with neither credential present, the builder returns
\* headers without Authorization iff no scope is required, and fails with
\* UnauthorizedException when a scope is required.
C6_EitherWithoutCredentials ==
    (BuiltHeader /\ last.auth_type = "EITHER" /\ ~has_app_auth /\ ~has_user_auth) =>
        IF last.required_scope = <<>>
        THEN last.err = "none" /\ "Authorization" \notin DOMAIN last.header
        ELSE last.err = "UnauthorizedException"

\* C7: in mode APP with the app credential present, a required scope missing
\* from the credential's scope list makes the build fail with
\* MissingScopeException naming the first such scope in order, and no
\* headers are returned.
C7_AppMissingScopeNamed ==
    (BuiltHeader /\ last.auth_type = "APP" /\ has_app_auth
        /\ ~Covers(app_auth_scope, last.required_scope)) =>
        LET k == CHOOSE k \in 1..Len(last.required_scope) :
                    /\ ~Contains(app_auth_scope, last.required_scope[k])
                    /\ \A j \in 1..(k - 1) : Contains(app_auth_scope, last.required_scope[j])
        IN  /\ last.err = "MissingScopeException"
            /\ last.msg = <<"Require app auth scope", last.required_scope[k]>>
            /\ last.header = NoHeader

C7_Witness ==
    /\ BuiltHeader /\ last.auth_type = "APP" /\ has_app_auth
    /\ app_auth_scope = <<>>
    /\ last.required_scope = <<"BITS_READ", "ANALYTICS_READ_EXTENSION">>
    /\ last.msg = <<"Require app auth scope", "BITS_READ">>

\* C8: an endpoint method that fails on an argument check, an absent
\* credential or a missing scope has issued no HTTP request.
EndpointOps == {"get_webhook_subscriptions", "get_users", "get_extension_analytics",
                "get_game_analytics", "get_bits_leaderboard", "get_extension_transactions",
                "create_clip", "get_clips", "create_entitlement_grants_upload_url",
                "get_code_status", "redeem_code", "get_top_games", "get_games",
                "check_automod_status", "get_banned_events", "get_banned_users"}
PreventableErrors == {"Exception", "UnauthorizedException", "MissingScopeException"}

C8_PreventableErrorsBeforeTransport ==
    (last.op \in EndpointOps /\ last.err \in PreventableErrors) => Len(last.requests) = 0

C8_Witness ==
    /\ last.op = "get_bits_leaderboard" /\ last.args.count = 150
    /\ has_user_auth /\ Contains(user_auth_scope, "BITS_READ")
    /\ last.err = "Exception" /\ last.msg = <<"count must be between 1 and 100">>
    /\ Len(last.requests) = 0

\* C9: a credential's presence flag is true iff its token has been stored
\* (the scope list is stored before or with it), and an Authorization header
\* carries the token of a credential that is marked present.
C9_PresenceAndHeaderToken ==
    /\ has_app_auth <=> app_auth_token \in Tokens
    /\ has_user_auth <=> user_auth_token \in Tokens
    /\ ~has_user_auth => user_auth_scope = <<>>
    /\ (BuiltHeader /\ HasAuthorization) =>
          /\ HasAuth(last.cred)
          /\ TokenOf(last.cred) \in Tokens
          /\ last.header["Authorization"] = Bearer(TokenOf(last.cred))

C9_Witness ==
    /\ BuiltHeader /\ HasAuthorization /\ last.auth_type = "NONE"
    /\ last.cred = "app" /\ has_app_auth /\ ~has_user_auth
    /\ last.header["Authorization"] = Bearer(app_auth_token)

\* C10: get_code_status and redeem_code with 1 to 20 codes and the app
\* credential present issue exactly one request carrying the app token; with
\* 0 or more than 20 codes they fail with the 1-to-20 rule and no request.
C10_CodeListRule ==
    (last.op \in {"get_code_status", "redeem_code"}) =>
        LET n == Len(last.args.code) IN
        /\ (n >= 1 /\ n <= 20 /\ has_app_auth) =>
              /\ Len(last.requests) = 1
              /\ last.requests[1].headers["Authorization"] = Bearer(app_auth_token)
        /\ (n < 1 \/ n > 20) =>
              /\ last.err = "Exception"
              /\ last.msg = <<"only between 1 and 20 codes are allowed">>
              /\ Len(last.requests) = 0
====
